---- MODULE Spec2Model ----
(***************************************************************************)
(* Agent portal: the role/team scoped Entity Store (MemStorage and         *)
(* DatabaseStorage), the Session/Auth manager (JWT plus a sessions table)  *)
(* and the HTTP routes that sit on top of them.                            *)
(*                                                                         *)
(* Time is a clock of ticks.  A tick is the resolution of the JWT "iat"    *)
(* claim; the 24 hour validity of tokens and sessions is scaled to         *)
(* SESSION_DURATION / TOKEN_LIFETIME ticks.                                *)
(***************************************************************************)
EXTENDS Integers, Sequences, FiniteSets, TLC

\* ---------------------------------------------------------------- bounds
MaxTime == 2
MaxNewUsers == 1
MaxSessions == 2
MaxNewAgents == 1
MaxLog == 2
MaxConns == 2
MaxMsgs == 3
MaxRequests == 2
MaxAppends == 100

\* ------------------------------------------------------ program constants
SESSION_DURATION == 2
TOKEN_LIFETIME == 2
LOG_CAP == 100
QUERY_LIMIT == 100
DEPLOY_DELAY == 3000
RESTART_DELAY == 2000
ACTION_DELAY == 1000
USERNAME_MIN == 3
USERNAME_MAX == 50
PASSWORD_MIN == 6

Null == "<null>"

VARIABLES
    backend,       \* "mem" | "db": which IStorage implementation `storage` is
    now,           \* the clock
    memUsers,      \* MemStorage.users
    dbUsers,       \* the users table
    sessions,      \* the sessions table
    agents,        \* the agents of `storage`, in insertion order
    activityLogs,  \* the activity log of `storage`, most recent first
    loggedOut,     \* history: the token of the most recent completed logout
    last,          \* the last request and the response it got
    connections,   \* the keys of the `connections` map of registerRoutes
    sockets,       \* every WebSocket accepted so far: readyState, agentId, frames sent
    timers,        \* the response timers that have been set and have not finished
    interactions,  \* the interactions of `storage`, in insertion order
    received,      \* how many WebSocket messages have been received
    crashed,       \* the process has exited on an unhandled rejection
    reply,         \* the last call of simulateAgentResponse and what it returned
    requests       \* the HTTP requests whose handler has been suspended at an await

callVars == <<reply, requests>>

chanVars == <<connections, sockets, timers, interactions, received, crashed>>

wsVars == <<chanVars, callVars>>

vars == <<backend, now, memUsers, dbUsers, sessions, agents, activityLogs, loggedOut, last,
          wsVars>>

\* ------------------------------------------------------------- data

Teams == {"Customer Experience Team", "Analytics Team", "Development Team"}
Roles == {"admin", "team_member"}
Statuses == {"online", "offline", "busy", "error"}

\* bcrypt.hash / bcrypt.compare: the hash is not the password, and compare
\* accepts exactly the password that was hashed.
hashPassword(password) == <<"bcrypt", password>>

verifyPassword(password, hash) == hash = <<"bcrypt", password>>

User(id, username, email, password, role, team, isActive) ==
    [id |-> id, username |-> username, email |-> email,
     passwordHash |-> hashPassword(password), role |-> role, team |-> team,
     isActive |-> isActive]

\* MemStorage.initializeSampleUsers
sampleUsers ==
    { User("admin-001", "admin", "admin@ust.com", "admin123", "admin", Null, TRUE),
      User("team-001", "teamuser", "team@ust.com", "team123", "team_member",
           "Development Team", TRUE) }

\* Rows of the users table when the server starts: the two sample accounts
\* and one account that has been deactivated.
initialUserRows ==
    sampleUsers \cup
    { User("old-001", "carol", "carol@ust.com", "carol123", "team_member",
           "Analytics Team", FALSE) }

Agent(id, name, team, agentType, status, isActive) ==
    [id |-> id, name |-> name, team |-> team, agentType |-> agentType,
     status |-> status, isActive |-> isActive]

\* MemStorage.initializeSampleData (the first two of the six sample agents)
sampleAgents ==
    << Agent("customercare-ai", "CustomerCare AI", "Customer Experience Team",
             "Simple reflex agents", "online", TRUE),
       Agent("datainsight-pro", "DataInsight Pro", "Analytics Team",
             "Model-based agents", "online", TRUE) >>

\* MemStorage.initializeSampleData (the first two sample log entries).  The
\* ids of log entries are numbered in the order of creation.
sampleLogs ==
    << [id |-> 2, type |-> "interaction", agentId |-> "customercare-ai"],
       [id |-> 1, type |-> "agent_registered", agentId |-> "datainsight-pro"] >>

\* randomUUID(): ids that no row carries yet
newUserIds == <<"user-1", "user-2", "user-3">>
newAgentIds == <<"agent-1", "agent-2", "agent-3">>

Range(s) == {s[i] : i \in 1..Len(s)}

\* ------------------------------------------------------------- tokens

\* A JWT: the payload {userId, iat} and whether the signature was made with
\* JWT_SECRET.  exp = iat + TOKEN_LIFETIME.
Token(userId, iat, sig) == [userId |-> userId, iat |-> iat, sig |-> sig]

NoToken == Token(Null, 0, "none")

generateToken(userId) == Token(userId, now, "good")

\* jwt.verify: throws on a bad signature and once the clock has reached exp
jwtVerify(token) == token.sig = "good" /\ now < token.iat + TOKEN_LIFETIME

NoUser == User(Null, Null, Null, Null, Null, Null, FALSE)

Response(code, msg) == [code |-> code, error |-> msg, user |-> NoUser]

\* What the model records of a request and its response.
Last(route, code, msg, userId) ==
    [route |-> route, code |-> code, msg |-> msg, userId |-> userId]

Idle == Last("none", 0, "", Null)

\* ------------------------------------------------------------- users

\* The users the Entity Store reads and writes: MemStorage.users or the
\* users table (DatabaseStorage).
StoreUsers == IF backend = "db" THEN dbUsers ELSE memUsers

\* Mutant: a username lookup that never finds a user
getUserByUsername_Never(username) == NoUser

getUserByUsername(username) ==
    LET found == {u \in StoreUsers : u.username = username}
    IN  IF found = {} THEN NoUser ELSE CHOOSE u \in found : TRUE

\* Mutant: an email lookup that never finds a user
getUserByEmail_Never(email) == NoUser

getUserByEmail(email) ==
    LET found == {u \in StoreUsers : u.email = email}
    IN  IF found = {} THEN NoUser ELSE CHOOSE u \in found : TRUE

NewUserCount == Cardinality({u \in StoreUsers : u.id \in Range(newUserIds)})

\* createUser: the row that is stored (a fresh id, isActive = true)
createUser(body) ==
    User(newUserIds[NewUserCount + 1], body.username, body.email, body.password,
         body.role, body.team, TRUE)

\* ------------------------------------------------------------- sessions

\* createSession: the insert into the sessions table.  The table declares
\* user_id as a reference to users.id and token as unique; an insert that
\* breaks either throws.
createSession(userId, userRows) ==
    LET token == generateToken(userId)
    IN  [ok    |-> (\E u \in userRows : u.id = userId)
                   /\ ~(\E s \in sessions : s.token = token),
         token |-> token,
         row   |-> [userId |-> userId, token |-> token,
                    expiresAt |-> now + SESSION_DURATION]]

\* Mutant: authenticateToken that trusts the signature and skips the session row
authenticateToken_NoSessionCheck(token) ==
    IF token = NoToken
    THEN Response(401, "Access token required")
    ELSE IF ~jwtVerify(token)
    THEN Response(403, "Invalid token")
    ELSE LET found == {u \in dbUsers : u.id = token.userId /\ u.isActive}
         IN  IF found = {}
             THEN Response(401, "User not found or inactive")
             ELSE [code |-> 0, error |-> "", user |-> CHOOSE u \in found : TRUE]

\* authenticateToken: code 0 stands for next(), with req.user = user
authenticateToken(token) ==
    IF token = NoToken
    THEN Response(401, "Access token required")
    ELSE IF ~jwtVerify(token)
    THEN Response(403, "Invalid token")
    ELSE LET rows == {s \in sessions : s.token = token /\ s.userId = token.userId}
         IN  IF rows = {} \/ (\E s \in rows : s.expiresAt < now)
             THEN Response(401, "Invalid or expired token")
             ELSE LET found == {u \in dbUsers : u.id = token.userId /\ u.isActive}
                  IN  IF found = {}
                      THEN Response(401, "User not found or inactive")
                      ELSE [code |-> 0, error |-> "", user |-> CHOOSE u \in found : TRUE]

\* Mutant: requireRole that lets every authenticated role through
requireRole_AnyRole(roles, user) ==
    IF user = NoUser
    THEN Response(401, "Authentication required")
    ELSE [code |-> 0, error |-> "", user |-> user]

requireRole(roles, user) ==
    IF user = NoUser
    THEN Response(401, "Authentication required")
    ELSE IF user.role \notin roles
    THEN Response(403, "Insufficient permissions")
    ELSE [code |-> 0, error |-> "", user |-> user]

requireTeamAccess(user) ==
    IF user = NoUser
    THEN Response(401, "Authentication required")
    ELSE [code |-> 0, error |-> "", user |-> user]

\* The tokens a client may present: none, the tokens of the session rows,
\* tokens that were logged out, and tokens made outside the server with a
\* wrong or with the right secret.
PresentedTokens ==
    {NoToken} \cup {s.token : s \in sessions} \cup loggedOut
        \cup {Token("admin-001", now, "bad"), Token("team-001", now, "good")}

\* ------------------------------------------------------------- schemas

\* loginSchema: username z.string().min(3).max(50), password z.string().min(6)
loginSchemaOk(credentials) ==
    /\ Len(credentials.username) >= USERNAME_MIN
    /\ Len(credentials.username) <= USERNAME_MAX
    /\ Len(credentials.password) >= PASSWORD_MIN

\* insertUserSchema: username is at most 50 characters (no minimum)
insertUserSchemaOk(body) == Len(body.username) <= USERNAME_MAX

\* A username of 51 characters
LongName == "xxxxxxxxxxxxxxxxxxxxxxxxxxxxxxxxxxxxxxxxxxxxxxxxxxx"

RegisterBodies ==
    { [username |-> b[1], email |-> b[2], password |-> "alice123", role |-> b[3],
       team |-> b[4]] :
        b \in { <<"alice", "alice@x.com", "team_member", "Analytics Team">>,
                <<"al", "al@x.com", "team_member", "Analytics Team">>,
                <<"admin", "alice@x.com", "team_member", "Analytics Team">>,
                <<"alice", "team@ust.com", "admin", Null>>,
                <<LongName, "alice@x.com", "admin", Null>> } }

\* The credentials the auth routes are tried with
LoginCredentials ==
    { [username |-> c[1], password |-> c[2]] :
        c \in { <<"admin", "admin123">>, <<"carol", "carol123">>,
                <<"alice", "alice123">>, <<"admin", "wrong-pw">>,
                <<"nobody", "wrong-pw">>, <<"al", "alice123">>, <<"admin", "pw">> } }

\* The credentials of the clients of the agent routes: the two sample accounts
AgentClients ==
    { [username |-> "admin", password |-> "admin123"],
      [username |-> "teamuser", password |-> "team123"],
      [username |-> "teamuser", password |-> "wrong-pw"] }

\* ------------------------------------------------------------- agents

NoAgent == Agent(Null, Null, Null, Null, Null, FALSE)

Reverse(s) == [i \in 1..Len(s) |-> s[Len(s) + 1 - i]]

\* JavaScript truthiness of a team argument: null, undefined and "" are falsy
Truthy(team) == team \notin {Null, ""}

IsActive(a) == a.isActive

\* Mutant: getAgents that forgets the team filter
MemGetAgents_NoTeamFilter(userRole, userTeam) == SelectSeq(agents, IsActive)

\* MemStorage.getAgents: the active agents in insertion order, narrowed to
\* the team for a team_member that has one
MemGetAgents(userRole, userTeam) ==
    LET allAgents == SelectSeq(agents, IsActive)
        OfTeam(a) == a.team = userTeam
    IN  IF userRole = "team_member" /\ Truthy(userTeam)
        THEN SelectSeq(allAgents, OfTeam)
        ELSE allAgents

\* DatabaseStorage.getAgents: newest first; nothing for any other role
DbGetAgents(userRole, userTeam) ==
    LET OfTeam(a) == a.isActive /\ a.team = userTeam
    IN  IF userRole = "admin"
        THEN Reverse(SelectSeq(agents, IsActive))
        ELSE IF userRole = "team_member" /\ Truthy(userTeam)
        THEN Reverse(SelectSeq(agents, OfTeam))
        ELSE <<>>

getAgents(userRole, userTeam) ==
    IF backend = "db" THEN DbGetAgents(userRole, userTeam)
    ELSE MemGetAgents(userRole, userTeam)

AgentById(id) ==
    LET found == {a \in Range(agents) : a.id = id}
    IN  IF found = {} THEN NoAgent ELSE CHOOSE a \in found : TRUE

\* MemStorage.getAgent(id): this.agents.get(id); it takes no role and no team
MemGetAgent(id, userRole, userTeam) == AgentById(id)

\* DatabaseStorage.getAgent
DbGetAgent(id, userRole, userTeam) ==
    LET a == AgentById(id)
    IN  IF userRole = "admin"
        THEN IF a.isActive THEN a ELSE NoAgent
        ELSE IF userRole = "team_member" /\ Truthy(userTeam)
        THEN IF a.isActive /\ a.team = userTeam THEN a ELSE NoAgent
        ELSE NoAgent

getAgent(id, userRole, userTeam) ==
    IF backend = "db" THEN DbGetAgent(id, userRole, userTeam)
    ELSE MemGetAgent(id, userRole, userTeam)

NewAgentCount == Cardinality({a \in Range(agents) : a.id \in Range(newAgentIds)})

\* randomUUID() of createActivityLog: an id no entry has had
NextLogId(logs) ==
    LET ids == {logs[i].id : i \in 1..Len(logs)}
    IN  IF ids = {} THEN 1 ELSE 1 + CHOOSE n \in ids : \A k \in ids : k <= n

\* Mutant: a MemStorage.createActivityLog that never drops an entry
createActivityLog_NoCap(logs, agentRows, entry) ==
    LET log   == [id |-> NextLogId(logs), type |-> entry.type, agentId |-> entry.agentId]
        added == <<log>> \o logs
    IN  IF backend = "db"
        THEN IF entry.agentId = Null \/ (\E a \in Range(agentRows) : a.id = entry.agentId)
             THEN [ok |-> TRUE, logs |-> added]
             ELSE [ok |-> FALSE, logs |-> logs]
        ELSE [ok |-> TRUE, logs |-> added]

\* createActivityLog.  MemStorage unshifts and keeps the latest LOG_CAP
\* entries; the activity_logs table takes the row if agent_id is null or
\* references an agent, and the insert throws otherwise.
createActivityLog(logs, agentRows, entry) ==
    LET log   == [id |-> NextLogId(logs), type |-> entry.type, agentId |-> entry.agentId]
        added == <<log>> \o logs
    IN  IF backend = "db"
        THEN IF entry.agentId = Null \/ (\E a \in Range(agentRows) : a.id = entry.agentId)
             THEN [ok |-> TRUE, logs |-> added]
             ELSE [ok |-> FALSE, logs |-> logs]
        ELSE [ok |-> TRUE,
              logs |-> IF Len(added) > LOG_CAP THEN SubSeq(added, 1, LOG_CAP) ELSE added]

LogEntry(type, agentId) == [type |-> type, agentId |-> agentId]

\* getActivityLogs.  MemStorage returns its array; DatabaseStorage selects
\* the QUERY_LIMIT rows with the latest timestamps, latest first.
getActivityLogs ==
    IF backend = "db" /\ Len(activityLogs) > QUERY_LIMIT
    THEN SubSeq(activityLogs, 1, QUERY_LIMIT)
    ELSE activityLogs

\* createAgent.  MemStorage forces status "offline" and logs the registration;
\* DatabaseStorage inserts the values it is given (status defaults to "offline").
createAgent(insertAgent) ==
    LET id  == newAgentIds[NewAgentCount + 1]
        row == Agent(id, insertAgent.name, insertAgent.team, insertAgent.agentType,
                     IF backend = "db" /\ insertAgent.status # Null
                     THEN insertAgent.status ELSE "offline",
                     TRUE)
        rows == Append(agents, row)
    IN  [agent  |-> row,
         agents |-> rows,
         logs   |-> IF backend = "db" THEN activityLogs
                    ELSE createActivityLog(activityLogs, rows,
                                           LogEntry("agent_registered", id)).logs]

SetRow(rows, id, row) == [i \in 1..Len(rows) |-> IF rows[i].id = id THEN row ELSE rows[i]]

\* updateAgent: merges the given fields into the row with that id, if any
updateAgent(id, updates) ==
    LET a == AgentById(id)
        merged == [f \in DOMAIN a |-> IF f \in DOMAIN updates THEN updates[f] ELSE a[f]]
    IN  IF a = NoAgent THEN agents ELSE SetRow(agents, id, merged)

\* deleteAgent: soft delete; the result says whether a row was found
deleteAgent(id) ==
    LET a == AgentById(id)
    IN  IF a = NoAgent
        THEN [result |-> FALSE, agents |-> agents]
        ELSE [result |-> TRUE, agents |-> SetRow(agents, id, [a EXCEPT !.isActive = FALSE])]

\* updateAgentStatus.  MemStorage also logs the change.
updateAgentStatus(id, status) ==
    LET a == AgentById(id)
        rows == SetRow(agents, id, [a EXCEPT !.status = status])
    IN  IF a = NoAgent
        THEN [agents |-> agents, logs |-> activityLogs]
        ELSE [agents |-> rows,
              logs   |-> IF backend = "db" THEN activityLogs
                         ELSE createActivityLog(activityLogs, rows,
                                                LogEntry("agent_status_change", id)).logs]

\* The counting of getStats over the agents it has selected
Stats(rows) ==
    LET Idx == 1..Len(rows)
    IN  [totalAgents   |-> Len(rows),
         activeAgents  |-> Cardinality({i \in Idx : rows[i].status \in {"active", "online", "busy"}}),
         offlineAgents |-> Cardinality({i \in Idx : rows[i].status \in {"offline", "error"}}),
         agentTypes    |-> [t \in {rows[i].agentType : i \in Idx} |->
                               Cardinality({i \in Idx : rows[i].agentType = t})]]

\* MemStorage.getStats
MemGetStats(userRole, userTeam) ==
    LET allAgents == SelectSeq(agents, IsActive)
        OfTeam(a) == a.team = userTeam
    IN  IF userRole = "team_member" /\ Truthy(userTeam)
        THEN Stats(SelectSeq(allAgents, OfTeam))
        ELSE Stats(allAgents)

\* DatabaseStorage.getStats: the team's active agents for a team_member with
\* a team, the base query (all active agents) for every other caller
DbGetStats(userRole, userTeam) ==
    LET OfTeam(a) == a.isActive /\ a.team = userTeam
    IN  IF userRole = "team_member" /\ Truthy(userTeam)
        THEN Stats(SelectSeq(agents, OfTeam))
        ELSE Stats(SelectSeq(agents, IsActive))

getStats(userRole, userTeam) ==
    IF backend = "db" THEN DbGetStats(userRole, userTeam)
    ELSE MemGetStats(userRole, userTeam)

LogRoom(logs) == Len(logs) <= Len(sampleLogs) + MaxLog

\* A call of simulateAgentResponse and its result
Reply(agentId, userMessage, response) ==
    [agentId |-> agentId, userMessage |-> userMessage, response |-> response]

NoReply == Reply(Null, Null, Null)

\* ------------------------------------------------------------- Init

\* The session row of carol dates from before her account was deactivated.
initialSessionRows ==
    { [userId |-> "old-001", token |-> Token("old-001", 0, "good"),
       expiresAt |-> SESSION_DURATION] }

Init ==
    /\ backend \in {"mem", "db"}
    /\ now = 0
    /\ memUsers = sampleUsers
    /\ dbUsers = initialUserRows
    /\ sessions = initialSessionRows
    /\ agents = sampleAgents
    /\ activityLogs = sampleLogs
    /\ loggedOut = {}
    /\ last = Idle
    /\ connections = {}
    /\ sockets = [sessionId \in {} |-> Null]
    /\ timers = {}
    /\ interactions = <<>>
    /\ received = 0
    /\ crashed = FALSE
    /\ reply = NoReply
    /\ requests = {}

\* ------------------------------------------------------------- clock

Tick ==
    /\ now < MaxTime
    /\ now' = now + 1
    /\ last' = Idle
    /\ UNCHANGED <<wsVars, backend, memUsers, dbUsers, sessions, agents, activityLogs, loggedOut>>

\* ------------------------------------------------------------- auth routes

\* The users table declares username and email unique: an insert that
\* repeats either throws.  MemStorage.createUser has no such check.
insertUserOk(user) ==
    backend = "db" =>
        ~(\E u \in dbUsers : u.username = user.username \/ u.email = user.email)

\* POST /api/auth/register
Register(body) ==
    LET user    == createUser(body)
        rows    == IF backend = "db" THEN dbUsers \cup {user} ELSE dbUsers
        session == createSession(user.id, rows)
    IN  /\ UNCHANGED <<wsVars, backend, now, agents, activityLogs, loggedOut>>
        /\ IF ~insertUserSchemaOk(body)
           THEN /\ last' = Last("POST /api/auth/register", 400, "Invalid user data", Null)
                /\ UNCHANGED <<memUsers, dbUsers, sessions>>
           ELSE IF getUserByUsername(body.username) # NoUser
                   \/ getUserByEmail(body.email) # NoUser
           THEN /\ last' = Last("POST /api/auth/register", 400, "User already exists", Null)
                /\ UNCHANGED <<memUsers, dbUsers, sessions>>
           ELSE IF ~insertUserOk(user)
           THEN /\ last' = Last("POST /api/auth/register", 400, "Invalid user data", Null)
                /\ UNCHANGED <<memUsers, dbUsers, sessions>>
           ELSE /\ NewUserCount < MaxNewUsers
                /\ dbUsers' = rows
                /\ memUsers' = IF backend = "db" THEN memUsers ELSE memUsers \cup {user}
                /\ IF session.ok
                   THEN /\ Cardinality(sessions) <= MaxSessions
                        /\ sessions' = sessions \cup {session.row}
                        /\ last' = Last("POST /api/auth/register", 201,
                                        "User created successfully", user.id)
                   ELSE /\ sessions' = sessions
                        /\ last' = Last("POST /api/auth/register", 400,
                                        "Invalid user data", Null)

\* A request whose handler is suspended at an await, or was: its position
\* (phase), the requests that were suspended when it began (during), and the
\* id of the user it has created, if any
Request(id, route, body, phase, during, userId) ==
    [id |-> id, route |-> route, body |-> body, phase |-> phase, during |-> during,
     userId |-> userId]

Suspended == {r \in requests : r.phase # "done"}

\* POST /api/auth/register up to `await hashPassword`: insertUserSchema.parse
\* and the lookup of an existing user.  bcrypt.hash runs on the thread pool,
\* so other requests are handled before the handler goes on.
RegisterCheck(body) ==
    /\ Cardinality(requests) < MaxRequests
    /\ UNCHANGED <<backend, now, memUsers, dbUsers, sessions, agents, activityLogs,
                   loggedOut, chanVars, reply>>
    /\ IF ~insertUserSchemaOk(body)
       THEN /\ last' = Last("POST /api/auth/register", 400, "Invalid user data", Null)
            /\ UNCHANGED requests
       ELSE IF getUserByUsername(body.username) # NoUser
               \/ getUserByEmail(body.email) # NoUser
       THEN /\ last' = Last("POST /api/auth/register", 400, "User already exists", Null)
            /\ UNCHANGED requests
       ELSE /\ requests' = requests \cup
                   {Request(Cardinality(requests) + 1, "POST /api/auth/register", body,
                            "hashPassword", {r.id : r \in Suspended}, Null)}
            /\ UNCHANGED last

\* POST /api/auth/register from the return of hashPassword: createUser,
\* createSession and the response
RegisterCreate(request) ==
    LET body    == request.body
        user    == createUser(body)
        rows    == IF backend = "db" THEN dbUsers \cup {user} ELSE dbUsers
        session == createSession(user.id, rows)
        done    == [request EXCEPT !.phase = "done"]
    IN  /\ request.phase = "hashPassword"
        /\ UNCHANGED <<backend, now, agents, activityLogs, loggedOut, chanVars, reply>>
        /\ IF ~insertUserOk(user)
           THEN /\ last' = Last("POST /api/auth/register", 400, "Invalid user data", Null)
                /\ requests' = (requests \ {request}) \cup {done}
                /\ UNCHANGED <<memUsers, dbUsers, sessions>>
           ELSE /\ dbUsers' = rows
                /\ memUsers' = IF backend = "db" THEN memUsers ELSE memUsers \cup {user}
                /\ requests' = (requests \ {request}) \cup {[done EXCEPT !.userId = user.id]}
                /\ IF session.ok
                   THEN /\ sessions' = sessions \cup {session.row}
                        /\ last' = Last("POST /api/auth/register", 201,
                                        "User created successfully", user.id)
                   ELSE /\ sessions' = sessions
                        /\ last' = Last("POST /api/auth/register", 400,
                                        "Invalid user data", Null)

\* Mutant: a login that tells an unknown username from a wrong password
checkCredentials_Leaky(credentials) ==
    LET user == getUserByUsername(credentials.username)
    IN  IF ~loginSchemaOk(credentials)
        THEN Response(400, "Invalid credentials")
        ELSE IF user = NoUser \/ ~user.isActive
        THEN Response(404, "User not found")
        ELSE IF ~verifyPassword(credentials.password, user.passwordHash)
        THEN Response(401, "Invalid credentials")
        ELSE [code |-> 0, error |-> "", user |-> user]

\* POST /api/auth/login, up to the creation of the session: the response to
\* credentials that are refused, code 0 for credentials that are accepted
checkCredentials(credentials) ==
    LET user == getUserByUsername(credentials.username)
    IN  IF ~loginSchemaOk(credentials)
        THEN Response(400, "Invalid credentials")
        ELSE IF user = NoUser \/ ~user.isActive
        THEN Response(401, "Invalid credentials")
        ELSE IF ~verifyPassword(credentials.password, user.passwordHash)
        THEN Response(401, "Invalid credentials")
        ELSE [code |-> 0, error |-> "", user |-> user]

\* POST /api/auth/login
Login(credentials) ==
    LET checked == checkCredentials(credentials)
        session == createSession(checked.user.id, dbUsers)
    IN  /\ UNCHANGED <<wsVars, backend, now, memUsers, dbUsers, agents, activityLogs, loggedOut>>
        /\ IF checked.code # 0
           THEN /\ last' = Last("POST /api/auth/login", checked.code, checked.error, Null)
                /\ UNCHANGED sessions
           ELSE IF session.ok
           THEN /\ Cardinality(sessions) <= MaxSessions
                /\ sessions' = sessions \cup {session.row}
                /\ last' = Last("POST /api/auth/login", 200, "Login successful",
                                checked.user.id)
           ELSE /\ last' = Last("POST /api/auth/login", 400, "Invalid credentials", Null)
                /\ UNCHANGED sessions

\* logout: deletes the session rows with the presented token
logout(token) == {s \in sessions : s.token # token}

\* POST /api/auth/logout: authenticateToken, then logout
Logout(token) ==
    LET auth == authenticateToken(token)
    IN  /\ UNCHANGED <<wsVars, backend, now, memUsers, dbUsers, agents, activityLogs>>
        /\ IF auth.code # 0
           THEN /\ last' = Last("POST /api/auth/logout", auth.code, auth.error, Null)
                /\ UNCHANGED <<sessions, loggedOut>>
           ELSE /\ sessions' = logout(token)
                /\ loggedOut' = {token}
                /\ last' = Last("POST /api/auth/logout", 200, "Logged out successfully",
                                auth.user.id)

\* GET /api/auth/profile: authenticateToken, then the user is returned
GetProfile(token) ==
    LET auth == authenticateToken(token)
    IN  /\ UNCHANGED <<wsVars, backend, now, memUsers, dbUsers, sessions, agents, activityLogs,
                       loggedOut>>
        /\ IF auth.code # 0
           THEN last' = Last("GET /api/auth/profile", auth.code, auth.error, Null)
           ELSE last' = Last("GET /api/auth/profile", 200, "", auth.user.id)

\* ------------------------------------------------------------- agent routes

\* insertAgentSchema: name, team, techStack and agentType are required
insertAgentSchemaOk(body) == body.name # Null /\ body.team # Null /\ body.agentType # Null

AgentBodies ==
    { [name |-> "Helper", team |-> "Development Team", agentType |-> "Learning agents",
       status |-> "online"],
      [name |-> "Helper", team |-> Null, agentType |-> "Learning agents",
       status |-> Null] }

\* The ids requests name: a sample agent, and the id the next created agent
\* gets (no agent has it before that)
RequestIds == {"customercare-ai", newAgentIds[1]}

\* GET /api/agents: authenticateToken, requireTeamAccess, storage.getAgents
GetAgentsRoute(token) ==
    LET auth  == authenticateToken(token)
        found == getAgents(auth.user.role, auth.user.team)
    IN  /\ UNCHANGED <<wsVars, backend, now, memUsers, dbUsers, sessions, agents, activityLogs,
                       loggedOut>>
        /\ IF auth.code # 0
           THEN last' = Last("GET /api/agents", auth.code, auth.error, Null)
           ELSE last' = Last("GET /api/agents", 200, "", auth.user.id)

\* GET /api/agents/:id: authenticateToken, requireTeamAccess, storage.getAgent(id)
GetAgentRoute(token, id) ==
    LET auth  == authenticateToken(token)
        agent == getAgent(id, Null, Null)
    IN  /\ UNCHANGED <<wsVars, backend, now, memUsers, dbUsers, sessions, agents, activityLogs,
                       loggedOut>>
        /\ IF auth.code # 0
           THEN last' = Last("GET /api/agents/:id", auth.code, auth.error, Null)
           ELSE IF agent = NoAgent
           THEN last' = Last("GET /api/agents/:id", 404, "Agent not found", auth.user.id)
           ELSE last' = Last("GET /api/agents/:id", 200, agent.id, auth.user.id)

\* POST /api/agents: authenticateToken, requireRole(['admin']), createAgent,
\* createActivityLog
PostAgents(token, body) ==
    LET auth    == authenticateToken(token)
        role    == requireRole({"admin"}, auth.user)
        created == createAgent(body)
        logged  == createActivityLog(created.logs, created.agents,
                                     LogEntry("agent_registered", created.agent.id))
    IN  /\ UNCHANGED <<wsVars, backend, now, memUsers, dbUsers, sessions, loggedOut>>
        /\ IF auth.code # 0
           THEN /\ last' = Last("POST /api/agents", auth.code, auth.error, Null)
                /\ UNCHANGED <<agents, activityLogs>>
           ELSE IF role.code # 0
           THEN /\ last' = Last("POST /api/agents", role.code, role.error, auth.user.id)
                /\ UNCHANGED <<agents, activityLogs>>
           ELSE IF ~insertAgentSchemaOk(body)
           THEN /\ last' = Last("POST /api/agents", 400, "Invalid agent data", auth.user.id)
                /\ UNCHANGED <<agents, activityLogs>>
           ELSE /\ NewAgentCount < MaxNewAgents
                /\ LogRoom(logged.logs)
                /\ agents' = created.agents
                /\ activityLogs' = logged.logs
                /\ last' = Last("POST /api/agents", 201, created.agent.id, auth.user.id)

\* PATCH /api/agents/:id/status: authenticateToken, requireRole(['admin']),
\* updateAgentStatus
PatchAgentStatus(token, id, status) ==
    LET auth    == authenticateToken(token)
        role    == requireRole({"admin"}, auth.user)
        updated == updateAgentStatus(id, status)
    IN  /\ UNCHANGED <<wsVars, backend, now, memUsers, dbUsers, sessions, loggedOut>>
        /\ IF auth.code # 0
           THEN /\ last' = Last("PATCH /api/agents/:id/status", auth.code, auth.error, Null)
                /\ UNCHANGED <<agents, activityLogs>>
           ELSE IF role.code # 0
           THEN /\ last' = Last("PATCH /api/agents/:id/status", role.code, role.error,
                                auth.user.id)
                /\ UNCHANGED <<agents, activityLogs>>
           ELSE /\ LogRoom(updated.logs)
                /\ agents' = updated.agents
                /\ activityLogs' = updated.logs
                /\ last' = Last("PATCH /api/agents/:id/status", 200, "Agent status updated",
                                auth.user.id)

\* The status a container action maps to
containerStatus(action) ==
    IF action = "start" \/ action = "deploy" THEN "online"
    ELSE IF action = "stop" THEN "offline" ELSE "busy"

\* The routes below run no authenticateToken.  For them last.userId is the
\* user the presented token identifies (Null if it identifies none); the
\* handler itself never looks at the token.
Presenter(token) == authenticateToken(token).user.id

\* POST /api/agents/:id/container/:action: simulateContainerAction,
\* updateAgentStatus, createActivityLog
ContainerAction(token, id, action) ==
    LET updated == updateAgentStatus(id, containerStatus(action))
        logged  == createActivityLog(updated.logs, updated.agents,
                                     LogEntry("system_event", id))
    IN  /\ UNCHANGED <<wsVars, backend, now, memUsers, dbUsers, sessions, loggedOut>>
        /\ LogRoom(logged.logs)
        /\ agents' = updated.agents
        /\ activityLogs' = logged.logs
        /\ IF logged.ok
           THEN last' = Last("POST /api/agents/:id/container/:action", 200,
                             "Container action completed", Presenter(token))
           ELSE last' = Last("POST /api/agents/:id/container/:action", 500,
                             "Failed to run container action", Presenter(token))

\* simulateContainerAction: the time in milliseconds it waits
containerDelay(action) ==
    IF action = "deploy" THEN DEPLOY_DELAY
    ELSE IF action = "restart" THEN RESTART_DELAY ELSE ACTION_DELAY

\* The container route up to `await simulateContainerAction`: the handler
\* sets the timer and is suspended
ContainerBegin(id, action) ==
    /\ Cardinality(requests) < MaxRequests
    /\ requests' = requests \cup
          {Request(Cardinality(requests) + 1, "POST /api/agents/:id/container/:action",
                   [id |-> id, action |-> action], "simulateContainerAction",
                   {r.id : r \in Suspended}, Null)}
    /\ UNCHANGED <<backend, now, memUsers, dbUsers, sessions, agents, activityLogs,
                   loggedOut, last, chanVars, reply>>

\* The container route from the return of simulateContainerAction:
\* updateAgentStatus, createActivityLog and the response.  A timer expires
\* before those set later with a delay that is not shorter.
ContainerComplete(request) ==
    LET id      == request.body.id
        action  == request.body.action
        updated == updateAgentStatus(id, containerStatus(action))
        logged  == createActivityLog(updated.logs, updated.agents,
                                     LogEntry("system_event", id))
    IN  /\ request.phase = "simulateContainerAction"
        /\ ~(\E r \in Suspended :
                /\ r.id < request.id
                /\ containerDelay(r.body.action) <= containerDelay(action))
        /\ requests' = (requests \ {request}) \cup {[request EXCEPT !.phase = "done"]}
        /\ agents' = updated.agents
        /\ activityLogs' = logged.logs
        /\ IF logged.ok
           THEN last' = Last("POST /api/agents/:id/container/:action", 200,
                             "Container action completed", Null)
           ELSE last' = Last("POST /api/agents/:id/container/:action", 500,
                             "Failed to run container action", Null)
        /\ UNCHANGED <<backend, now, memUsers, dbUsers, sessions, loggedOut, chanVars,
                       reply>>

\* POST /api/agents/:id/scale: simulateKubernetesScaling, createActivityLog
ScaleAgent(token, id) ==
    LET logged == createActivityLog(activityLogs, agents, LogEntry("system_event", id))
    IN  /\ UNCHANGED <<wsVars, backend, now, memUsers, dbUsers, sessions, agents, loggedOut>>
        /\ LogRoom(logged.logs)
        /\ activityLogs' = logged.logs
        /\ IF logged.ok
           THEN last' = Last("POST /api/agents/:id/scale", 200, "Agent scaled",
                             Presenter(token))
           ELSE last' = Last("POST /api/agents/:id/scale", 500, "Failed to scale agent",
                             Presenter(token))

\* POST /api/cluster/scale: simulateClusterScaling, createActivityLog
ClusterScale(token) ==
    LET logged == createActivityLog(activityLogs, agents, LogEntry("system_event", Null))
    IN  /\ UNCHANGED <<wsVars, backend, now, memUsers, dbUsers, sessions, agents, loggedOut>>
        /\ LogRoom(logged.logs)
        /\ activityLogs' = logged.logs
        /\ last' = Last("POST /api/cluster/scale", 200, "Cluster operation completed",
                        Presenter(token))

\* ------------------------------------------------------------- WebSocket channel

\* randomUUID(): the session ids of the connections, none issued twice
sessionIds == <<"ws-1", "ws-2", "ws-3", "ws-4">>

Socket(readyState, agentId, sent) ==
    [readyState |-> readyState, agentId |-> agentId, sent |-> sent]

\* The frames the server sends
Frame(type, agentId, sessionId, content) ==
    [type |-> type, agentId |-> agentId, sessionId |-> sessionId, content |-> content]

ConnectionEstablished(agentId, sessionId) ==
    Frame("connection_established", agentId, sessionId, Null)

AgentResponse(content) == Frame("agent_response", Null, Null, content)

ErrorFrame == Frame("error", Null, Null, "Failed to process message")

\* What a client sends: text that JSON.parse rejects, or a message with a
\* type and, if present, an agentId and a content (Null: the field is missing)
Message(valid, type, agentId, content) ==
    [valid |-> valid, type |-> type, agentId |-> agentId, content |-> content]

WsMessages ==
    { Message(FALSE, Null, Null, Null), Message(TRUE, "ping", Null, Null) }
    \cup { Message(TRUE, "agent_connect", id, Null) :
             id \in {"customercare-ai", "ghost-agent", Null} }
    \cup { Message(TRUE, "agent_message", Null, content) : content \in {"Hello", Null} }

\* The messages of a chat: as above, with a text that matches no keyword
ChatMessages ==
    WsMessages \cup {Message(TRUE, "agent_message", Null, "what can you do")}

UpperCase == "ABCDEFGHIJKLMNOPQRSTUVWXYZ"
LowerCase == "abcdefghijklmnopqrstuvwxyz"

RECURSIVE toLowerCase(_)
toLowerCase(text) ==
    IF text = "" THEN ""
    ELSE LET c == SubSeq(text, 1, 1)
             at == {i \in 1..Len(UpperCase) : SubSeq(UpperCase, i, i) = c}
             lower == IF at = {} THEN c
                      ELSE LET i == CHOOSE i \in at : TRUE IN SubSeq(LowerCase, i, i)
         IN  lower \o toLowerCase(SubSeq(text, 2, Len(text)))

\* String.prototype.includes
includes(text, word) ==
    \E i \in 1..(Len(text) - Len(word) + 1) : SubSeq(text, i, i + Len(word) - 1) = word

Unavailable == "I'm sorry, I'm currently unavailable. Please try again later."

RefundResponse ==
    "I can definitely help you with your refund request. Let me process that for you right away."

IssueResponse ==
    "I understand there's an issue. I'm here to help resolve this for you as quickly as possible."

OrderResponse ==
    "I can look up your order details and help you with any questions about your purchase."

Greeting(agent) ==
    "Hello! I'm " \o agent.name \o ", a " \o agent.agentType
        \o " agent, and I'm here to help you today. What can I assist you with?"

\* The `responses` object literal of simulateAgentResponse: its own keys
AgentTypes ==
    {"Simple reflex agents", "Model-based agents", "Goal-based agents",
     "Utility-based agents", "Learning agents", "Hierarchical agents"}

responses ==
    [t \in AgentTypes |->
       CASE t = "Simple reflex agents" ->
              { "I respond directly to current inputs based on predefined condition-action rules.",
                "My responses are immediate and based on the current situation I perceive.",
                "I follow simple if-then rules to provide quick, reactive assistance.",
                "I can handle straightforward requests with immediate pattern-based responses.",
                "My behavior is determined by current input stimuli and predefined responses." }
         [] t = "Model-based agents" ->
              { "I maintain an internal model of the world to make informed decisions.",
                "Based on my understanding of the current state and history, here's my analysis.",
                "I consider both current inputs and my internal state model to provide responses.",
                "My recommendations take into account the broader context and environmental factors.",
                "I use my world model to predict outcomes and suggest optimal actions." }
         [] t = "Goal-based agents" ->
              { "I'm working towards achieving specific objectives in my response planning.",
                "Let me determine the best course of action to reach the desired goal.",
                "I'll analyze different action sequences to achieve the optimal outcome.",
                "My recommendations are designed to help you reach your specified objectives.",
                "I consider future consequences and goal achievement in my decision-making." }
         [] t = "Utility-based agents" ->
              { "I'm evaluating multiple options to maximize overall utility and satisfaction.",
                "Based on utility calculations, here's the most beneficial approach.",
                "I consider trade-offs and preferences to recommend the highest-value solution.",
                "My analysis weighs different factors to optimize for the best overall outcome.",
                "I can help balance competing objectives to achieve maximum utility." }
         [] t = "Learning agents" ->
              { "I continuously improve my performance based on experience and feedback.",
                "My responses adapt and evolve based on previous interactions and outcomes.",
                "I'm incorporating new knowledge to provide increasingly better assistance.",
                "Through machine learning, I can enhance my problem-solving capabilities.",
                "I learn from each interaction to improve future responses and recommendations." }
         [] t = "Hierarchical agents" ->
              { "I coordinate multiple sub-agents and processes to handle complex tasks.",
                "My approach involves decomposing complex problems into manageable subtasks.",
                "I manage different levels of abstraction to provide comprehensive solutions.",
                "I coordinate between high-level planning and low-level execution tasks.",
                "My hierarchical structure allows for sophisticated multi-level problem solving." }]

\* The fallback array of simulateAgentResponse
genericResponses ==
    { "I'm here to help you with your request.",
      "Thank you for your message. I'm processing your request.",
      "I understand what you need. Let me assist you with that.",
      "I'm working on this for you right now.",
      "I appreciate your patience while I handle your request." }

\* `responses` is a plain object: a key it does not own is looked up in
\* Object.prototype.  These are the names found there; what they give is a
\* function or an object, which is truthy and has no element at any index.
ObjectPrototypeKeys ==
    {"constructor", "toString", "toLocaleString", "valueOf", "hasOwnProperty",
     "isPrototypeOf", "propertyIsEnumerable", "__proto__", "__defineGetter__",
     "__defineSetter__", "__lookupGetter__", "__lookupSetter__"}

\* responses[agent.agentType] || the fallback array, and then
\* agentResponses[Math.floor(Math.random() * agentResponses.length)]: the
\* values the pick may have (Null: undefined)
agentResponses(agentType) ==
    IF agentType \in AgentTypes THEN responses[agentType]
    ELSE IF agentType \in ObjectPrototypeKeys THEN {Null}
    ELSE genericResponses

\* simulateAgentResponse throws when the agent is found and the message has no
\* text: userMessage.toLowerCase() of undefined
simulateAgentResponseThrows(agentId, userMessage) ==
    getAgent(agentId, Null, Null) # NoAgent /\ userMessage = Null

\* simulateAgentResponse: the responses it may return (Math.random() picks in
\* the pool)
simulateAgentResponse(agentId, userMessage) ==
    LET agent == getAgent(agentId, Null, Null)
        lowerMessage == toLowerCase(userMessage)
    IN  IF agent = NoAgent THEN {Unavailable}
        ELSE IF includes(lowerMessage, "refund") \/ includes(lowerMessage, "return")
        THEN {RefundResponse}
        ELSE IF includes(lowerMessage, "problem") \/ includes(lowerMessage, "issue")
                \/ includes(lowerMessage, "damaged")
        THEN {IssueResponse}
        ELSE IF includes(lowerMessage, "order") \/ includes(lowerMessage, "purchase")
        THEN {OrderResponse}
        ELSE IF includes(lowerMessage, "hello") \/ includes(lowerMessage, "hi")
        THEN {Greeting(agent)}
        ELSE agentResponses(agent.agentType)

Interaction(agentId, sessionId, message, response) ==
    [agentId |-> agentId, sessionId |-> sessionId, message |-> message,
     response |-> response]

\* createInteraction.  MemStorage stores what it is given; the interactions
\* table wants agent_id to reference an agent and message to be not null, and
\* the insert throws otherwise.
createInteraction(insertInteraction) ==
    IF backend = "db"
       /\ (insertInteraction.message = Null
           \/ ~(\E a \in Range(agents) : a.id = insertInteraction.agentId))
    THEN [ok |-> FALSE, interactions |-> interactions]
    ELSE [ok |-> TRUE, interactions |-> Append(interactions, insertInteraction)]

\* MemStorage.getInteractions: the values of the map, which are in insertion
\* order, filtered by agent if an agent id is given
MemGetInteractions(agentId) ==
    LET OfAgent(i) == i.agentId = agentId
    IN  IF Truthy(agentId) THEN SelectSeq(interactions, OfAgent) ELSE interactions

\* DatabaseStorage.getInteractions: the QUERY_LIMIT rows with the latest
\* timestamps, latest first, of the agent if an agent id is given
DbGetInteractions(agentId) ==
    LET OfAgent(i) == i.agentId = agentId
        rows == Reverse(IF Truthy(agentId) THEN SelectSeq(interactions, OfAgent)
                        ELSE interactions)
    IN  IF Len(rows) > QUERY_LIMIT THEN SubSeq(rows, 1, QUERY_LIMIT) ELSE rows

getInteractions(agentId) ==
    IF backend = "db" THEN DbGetInteractions(agentId) ELSE MemGetInteractions(agentId)

\* ws.send
send(sessionId, frame) ==
    [sockets EXCEPT ![sessionId].sent = Append(@, frame)]

\* A timer set by an agent_message; phase "waiting" until the delay is over,
\* "stored" while the callback waits for the interactions insert to return.
\* agentId is history: the binding of the connection when the message was
\* received, which the callback does not look at.
Timer(id, sessionId, agentId, content, phase, response) ==
    [id |-> id, sessionId |-> sessionId, agentId |-> agentId, content |-> content,
     phase |-> phase, response |-> response]

\* wss.on('connection')
Connect ==
    LET sessionId == sessionIds[Cardinality(DOMAIN sockets) + 1]
    IN  /\ ~crashed
        /\ Cardinality(DOMAIN sockets) < MaxConns
        /\ sockets' = [s \in DOMAIN sockets \cup {sessionId} |->
                         IF s = sessionId THEN Socket("OPEN", Null, <<>>) ELSE sockets[s]]
        /\ connections' = connections \cup {sessionId}
        /\ UNCHANGED <<timers, interactions, received, crashed>>
        /\ UNCHANGED <<backend, now, memUsers, dbUsers, sessions, agents, activityLogs,
                       loggedOut, last, callVars>>

\* Mutant: a message handler that answers what it does not act on with an
\* error frame
Receive_AnswersUnknown(sessionId, message) ==
    LET ws == sockets[sessionId]
    IN  /\ ~crashed
        /\ ws.readyState = "OPEN"
        /\ received < MaxMsgs
        /\ received' = received + 1
        /\ IF ~message.valid
           THEN /\ sockets' = send(sessionId, ErrorFrame)
                /\ UNCHANGED timers
           ELSE IF message.type = "agent_connect"
           THEN /\ sockets' = [send(sessionId,
                                    ConnectionEstablished(message.agentId, sessionId))
                                 EXCEPT ![sessionId].agentId = message.agentId]
                /\ UNCHANGED timers
           ELSE IF message.type = "agent_message" /\ Truthy(ws.agentId)
           THEN /\ timers' = timers \cup
                      {Timer(received + 1, sessionId, ws.agentId, message.content,
                             "waiting", Null)}
                /\ UNCHANGED sockets
           ELSE /\ sockets' = send(sessionId, ErrorFrame)
                /\ UNCHANGED timers
        /\ UNCHANGED <<connections, interactions, crashed>>
        /\ UNCHANGED <<backend, now, memUsers, dbUsers, sessions, agents, activityLogs,
                       loggedOut, last, callVars>>

\* ws.on('message')
Receive(sessionId, message) ==
    LET ws == sockets[sessionId]
    IN  /\ ~crashed
        /\ ws.readyState = "OPEN"
        /\ received < MaxMsgs
        /\ received' = received + 1
        /\ IF ~message.valid
           THEN /\ sockets' = send(sessionId, ErrorFrame)
                /\ UNCHANGED timers
           ELSE IF message.type = "agent_connect"
           THEN /\ sockets' = [send(sessionId,
                                    ConnectionEstablished(message.agentId, sessionId))
                                 EXCEPT ![sessionId].agentId = message.agentId]
                /\ UNCHANGED timers
           ELSE IF message.type = "agent_message" /\ Truthy(ws.agentId)
           THEN /\ timers' = timers \cup
                      {Timer(received + 1, sessionId, ws.agentId, message.content,
                             "waiting", Null)}
                /\ UNCHANGED sockets
           ELSE UNCHANGED <<sockets, timers>>
        /\ UNCHANGED <<connections, interactions, crashed>>
        /\ UNCHANGED <<backend, now, memUsers, dbUsers, sessions, agents, activityLogs,
                       loggedOut, last, callVars>>

\* The socket starts to close: readyState is no longer OPEN
BeginClose(sessionId) ==
    /\ ~crashed
    /\ sockets[sessionId].readyState = "OPEN"
    /\ sockets' = [sockets EXCEPT ![sessionId].readyState = "CLOSING"]
    /\ UNCHANGED <<connections, timers, interactions, received, crashed>>
    /\ UNCHANGED <<backend, now, memUsers, dbUsers, sessions, agents, activityLogs,
                   loggedOut, last, callVars>>

\* Mutant: a close handler that leaves the registry entry
OnClose_KeepsEntry(sessionId) ==
    /\ ~crashed
    /\ sockets[sessionId].readyState = "CLOSING"
    /\ sockets' = [sockets EXCEPT ![sessionId].readyState = "CLOSED"]
    /\ UNCHANGED <<connections, timers, interactions, received, crashed>>
    /\ UNCHANGED <<backend, now, memUsers, dbUsers, sessions, agents, activityLogs,
                   loggedOut, last, callVars>>

\* ws.on('close')
OnClose(sessionId) ==
    /\ ~crashed
    /\ sockets[sessionId].readyState = "CLOSING"
    /\ sockets' = [sockets EXCEPT ![sessionId].readyState = "CLOSED"]
    /\ connections' = connections \ {sessionId}
    /\ UNCHANGED <<timers, interactions, received, crashed>>
    /\ UNCHANGED <<backend, now, memUsers, dbUsers, sessions, agents, activityLogs,
                   loggedOut, last, callVars>>

\* The end of the timer callback: the frame is sent if the socket is open
sendResponse(socketRows, timer, response) ==
    IF socketRows[timer.sessionId].readyState = "OPEN"
    THEN [socketRows EXCEPT ![timer.sessionId].sent = Append(@, AgentResponse(response))]
    ELSE socketRows

\* The setTimeout callback of an agent_message.  An exception of
\* simulateAgentResponse is an unhandled rejection: the callback ends there,
\* and the process exits unless it runs with unhandled rejections tolerated.
\* With MemStorage no await of the callback waits for I/O and the callback is
\* one step; with DatabaseStorage it waits for the insert before it sends.
TimerFire(timer) ==
    LET ws == sockets[timer.sessionId]
    IN  /\ ~crashed
        /\ timer.phase = "waiting"
        /\ IF simulateAgentResponseThrows(ws.agentId, timer.content)
           THEN /\ timers' = timers \ {timer}
                /\ crashed' \in BOOLEAN
                /\ UNCHANGED <<sockets, interactions>>
           ELSE \E response \in simulateAgentResponse(ws.agentId, timer.content) :
                   LET created == createInteraction(
                                      Interaction(ws.agentId, timer.sessionId,
                                                  timer.content, response))
                   IN  /\ interactions' = created.interactions
                       /\ crashed' = crashed
                       /\ IF backend = "db"
                          THEN /\ timers' = (timers \ {timer}) \cup
                                      {[timer EXCEPT !.phase = "stored",
                                                     !.response = response]}
                               /\ UNCHANGED sockets
                          ELSE /\ timers' = timers \ {timer}
                               /\ sockets' = sendResponse(sockets, timer, response)
        /\ UNCHANGED <<connections, received>>
        /\ UNCHANGED <<backend, now, memUsers, dbUsers, sessions, agents, activityLogs,
                       loggedOut, last, callVars>>

\* The rest of the callback once the interactions insert has returned
TimerSend(timer) ==
    /\ ~crashed
    /\ timer.phase = "stored"
    /\ timers' = timers \ {timer}
    /\ sockets' = sendResponse(sockets, timer, timer.response)
    /\ UNCHANGED <<connections, interactions, received, crashed>>
    /\ UNCHANGED <<backend, now, memUsers, dbUsers, sessions, agents, activityLogs,
                   loggedOut, last, callVars>>

NextWs ==
    \/ Connect
    \/ \E sessionId \in DOMAIN sockets, message \in WsMessages : Receive(sessionId, message)
    \/ \E sessionId \in DOMAIN sockets : BeginClose(sessionId)
    \/ \E sessionId \in DOMAIN sockets : OnClose(sessionId)
    \/ \E timer \in timers : TimerFire(timer)
    \/ \E timer \in timers : TimerSend(timer)

SpecWs == Init /\ [][NextWs]_vars

NextChat ==
    \/ Connect
    \/ \E sessionId \in DOMAIN sockets, message \in ChatMessages :
          Receive(sessionId, message)
    \/ \E sessionId \in DOMAIN sockets : BeginClose(sessionId)
    \/ \E sessionId \in DOMAIN sockets : OnClose(sessionId)
    \/ \E timer \in timers : TimerFire(timer)
    \/ \E timer \in timers : TimerSend(timer)

SpecChat == Init /\ [][NextChat]_vars

\* ------------------------------------------------------------- simulateAgentResponse

\* The agent ids and the message texts simulateAgentResponse is called with
ReplyAgentIds == {"customercare-ai", "datainsight-pro", "ghost-agent"}

RefundForOrder == "I need a refund for order #123"

ReplyTexts ==
    { RefundForOrder, "A PROBLEM with my Return", "Damaged order", "Hi, an issue",
      "hello, my purchase", "this", "what can you do" }

\* The agent types an agent is given: those of `responses`, and two others
TypeInputs == AgentTypes \cup {"Reactive agents", "constructor"}

\* A call of simulateAgentResponse with a message text
SimulateAgentResponse(agentId, userMessage) ==
    /\ \E response \in simulateAgentResponse(agentId, userMessage) :
          reply' = Reply(agentId, userMessage, response)
    /\ UNCHANGED <<backend, now, memUsers, dbUsers, sessions, agents, activityLogs,
                   loggedOut, last, chanVars, requests>>

\* ------------------------------------------------------------- Entity Store calls

StoreCall == Last("storage", 0, "", Null)

CreateAgent(insertAgent) ==
    LET created == createAgent(insertAgent)
    IN  /\ NewAgentCount < MaxNewAgents
        /\ LogRoom(created.logs)
        /\ agents' = created.agents
        /\ activityLogs' = created.logs
        /\ last' = StoreCall
        /\ UNCHANGED <<wsVars, backend, now, memUsers, dbUsers, sessions, loggedOut>>

UpdateAgent(id, updates) ==
    /\ agents' = updateAgent(id, updates)
    /\ last' = StoreCall
    /\ UNCHANGED <<wsVars, backend, now, memUsers, dbUsers, sessions, activityLogs, loggedOut>>

DeleteAgent(id) ==
    /\ agents' = deleteAgent(id).agents
    /\ last' = StoreCall
    /\ UNCHANGED <<wsVars, backend, now, memUsers, dbUsers, sessions, activityLogs, loggedOut>>

UpdateAgentStatus(id, status) ==
    LET updated == updateAgentStatus(id, status)
    IN  /\ LogRoom(updated.logs)
        /\ agents' = updated.agents
        /\ activityLogs' = updated.logs
        /\ last' = StoreCall
        /\ UNCHANGED <<wsVars, backend, now, memUsers, dbUsers, sessions, loggedOut>>

\* storage.createActivityLog, as the routes call it for a cluster operation
CreateActivityLog(insertLog) ==
    LET logged == createActivityLog(activityLogs, agents, insertLog)
    IN  /\ NextLogId(activityLogs) <= Len(sampleLogs) + MaxAppends
        /\ activityLogs' = logged.logs
        /\ last' = StoreCall
        /\ UNCHANGED <<wsVars, backend, now, memUsers, dbUsers, sessions, agents, loggedOut>>

AgentUpdates == { [team |-> "Analytics Team"], [status |-> "busy"] }

StoreIds == {"customercare-ai", "datainsight-pro", newAgentIds[1]}

NextStore ==
    \/ \E body \in {b \in AgentBodies : insertAgentSchemaOk(b)} : CreateAgent(body)
    \/ \E id \in StoreIds, updates \in AgentUpdates : UpdateAgent(id, updates)
    \/ \E id \in StoreIds : DeleteAgent(id)
    \/ \E id \in StoreIds : UpdateAgentStatus(id, "offline")

SpecStore == Init /\ [][NextStore]_vars

NextReply ==
    \/ \E agentType \in TypeInputs :
          UpdateAgent("customercare-ai", [agentType |-> agentType])
    \/ \E agentId \in ReplyAgentIds, userMessage \in ReplyTexts :
          SimulateAgentResponse(agentId, userMessage)

SpecReply == Init /\ [][NextReply]_vars

\* The bodies of the registrations that are sent at the same time: some
\* share a username or an email, one is an admin with a team, one a
\* team_member without a team
ConcurrentBodies ==
    { [username |-> b[1], email |-> b[2], password |-> "alice123", role |-> b[3],
       team |-> b[4]] :
        b \in { <<"alice", "alice@x.com", "team_member", "Analytics Team">>,
                <<"alice", "alice@y.com", "team_member", "Analytics Team">>,
                <<"bob", "alice@x.com", "team_member", "Analytics Team">>,
                <<"admin", "root@x.com", "team_member", "Analytics Team">>,
                <<"carl", "carl@x.com", "admin", "Analytics Team">>,
                <<"dora", "dora@x.com", "team_member", Null>> } }

NextRegister ==
    \/ \E body \in ConcurrentBodies : RegisterCheck(body)
    \/ \E request \in requests : RegisterCreate(request)

SpecRegister == Init /\ [][NextRegister]_vars

NextLog ==
    \/ CreateActivityLog(LogEntry("system_event", Null))
    \/ UpdateAgentStatus("customercare-ai", "offline")

SpecLog == Init /\ [][NextLog]_vars

ContainerActions == {"start", "stop", "restart", "deploy"}

NextContainer ==
    \/ \E id \in RequestIds, action \in ContainerActions : ContainerBegin(id, action)
    \/ \E request \in requests : ContainerComplete(request)

SpecContainer == Init /\ [][NextContainer]_vars

NextAgents ==
    \/ \E credentials \in AgentClients : Login(credentials)
    \/ \E token \in PresentedTokens : GetAgentsRoute(token)
    \/ \E token \in PresentedTokens, id \in RequestIds : GetAgentRoute(token, id)
    \/ \E token \in PresentedTokens, body \in AgentBodies : PostAgents(token, body)
    \/ \E token \in PresentedTokens, id \in RequestIds :
          PatchAgentStatus(token, id, "error")
    \/ \E token \in PresentedTokens, id \in RequestIds,
          action \in {"start", "stop", "restart"} : ContainerAction(token, id, action)
    \/ \E token \in PresentedTokens, id \in RequestIds : ScaleAgent(token, id)
    \/ \E token \in PresentedTokens : ClusterScale(token)

SpecAgents == Init /\ [][NextAgents]_vars

NextAuth ==
    \/ Tick
    \/ \E body \in RegisterBodies : Register(body)
    \/ \E credentials \in LoginCredentials : Login(credentials)
    \/ \E token \in PresentedTokens : Logout(token)
    \/ \E token \in PresentedTokens : GetProfile(token)

SpecAuth == Init /\ [][NextAuth]_vars

Next == NextAuth \/ NextAgents \/ NextStore \/ NextWs \/ NextChat

Spec == Init /\ [][Next]_vars

\* ============================================================= claims

AgentRows == Range(agents)

\* The user whose id a response carries
UserOf(userId) ==
    LET found == {u \in dbUsers : u.id = userId}
    IN  IF found = {} THEN NoUser ELSE CHOOSE u \in found : TRUE

\* C1: for a team_member of team T, getAgent gives for an active agent of
\* another team the same empty result as for an id no agent has, and
\* GET /api/agents/:id answers a team_member with an agent only if the agent
\* is of the member's team.
C1_CrossTeamAgentHidden ==
    /\ \A T \in Teams : \A a \in AgentRows :
          (a.isActive /\ a.team # T) => getAgent(a.id, "team_member", T) = NoAgent
    /\ (last.route = "GET /api/agents/:id" /\ last.code = 200
          /\ UserOf(last.userId).role = "team_member")
          => AgentById(last.msg).team = UserOf(last.userId).team

\* C2: getAgents('team_member', T) returns exactly the active agents of team
\* T, and getAgents('admin', any team) exactly the active agents, each once.
C2_GetAgentsScoped ==
    /\ \A T \in Teams :
          /\ Range(getAgents("team_member", T))
                = {a \in AgentRows : a.isActive /\ a.team = T}
          /\ Len(getAgents("team_member", T))
                = Cardinality({a \in AgentRows : a.isActive /\ a.team = T})
    /\ \A T \in Teams \cup {Null} :
          /\ Range(getAgents("admin", T)) = {a \in AgentRows : a.isActive}
          /\ Len(getAgents("admin", T)) = Cardinality({a \in AgentRows : a.isActive})

\* C2 witness: after Entity Store calls there is an inactive agent, and a team
\* whose member sees some but not all of the active agents.
C2_Witness ==
    /\ last = StoreCall
    /\ \E a \in AgentRows : ~a.isActive
    /\ \E T \in Teams :
          /\ getAgents("team_member", T) # <<>>
          /\ Len(getAgents("team_member", T)) < Len(getAgents("admin", Null))
    /\ Len(agents) > Len(sampleAgents)

ContainerRoutes ==
    {"POST /api/agents/:id/container/:action", "POST /api/agents/:id/scale",
     "POST /api/cluster/scale"}

\* C3: a container, scale or cluster-scale request whose token identifies no
\* user is rejected and changes neither an agent nor the activity log.
C3_NoTokenNoChange ==
    [][(last'.route \in ContainerRoutes /\ last'.userId = Null)
          => /\ last'.code \in {401, 403}
             /\ agents' = agents
             /\ activityLogs' = activityLogs]_vars

AdminRoutes == {"POST /api/agents", "PATCH /api/agents/:id/status"}

\* C4: POST /api/agents and PATCH /api/agents/:id/status of an authenticated
\* user who is not an admin are answered 403 and change neither the agents
\* nor the activity log; whenever one of the two routes changes them, the
\* request was an admin's.
C4_AdminOnlyMutation ==
    [][last'.route \in AdminRoutes
          => /\ (last'.userId # Null /\ UserOf(last'.userId).role # "admin")
                   => /\ last'.code = 403
                      /\ agents' = agents
                      /\ activityLogs' = activityLogs
             /\ (agents' # agents \/ activityLogs' # activityLogs)
                   => UserOf(last'.userId).role = "admin"]_vars

\* C4 witness: a team_member's POST /api/agents has been answered 403.
C4_Witness ==
    /\ last.route = "POST /api/agents"
    /\ last.code = 403
    /\ UserOf(last.userId).role = "team_member"

\* Every token over the user ids and clock values of the model
AllTokens ==
    {NoToken} \cup
    { Token(id, iat, sig) :
        id \in {u.id : u \in dbUsers \cup memUsers}, iat \in 0..MaxTime,
        sig \in {"good", "bad"} }

HasLiveSession(token) ==
    \E s \in sessions : s.token = token /\ s.userId = token.userId /\ s.expiresAt >= now

C6_IssuedTokenAccepted ==
    /\ (last.route \in {"POST /api/auth/register", "POST /api/auth/login"}
          /\ last.code \in {200, 201})
          => /\ authenticateToken(Token(last.userId, now, "good")).code = 0
             /\ authenticateToken(Token(last.userId, now, "good")).user.id = last.userId
    /\ \A u \in StoreUsers : UserOf(u.id) = u

\* C7: a token with which a logout has completed is refused by every later
\* token validation.
C7_LoggedOutTokenRefused ==
    \A token \in loggedOut : authenticateToken(token).code # 0

Taken(body) ==
    \E u \in StoreUsers : u.username = body.username \/ u.email = body.email

\* C8: a registration with a well-formed body whose username or email is that
\* of an existing user is answered with the conflict error and leaves users
\* and sessions unchanged.
C8_DuplicateRegistrationRefused ==
    [][\A body \in RegisterBodies :
          (insertUserSchemaOk(body) /\ Taken(body) /\ Register(body))
             => /\ last'.code = 400
                /\ last'.msg = "User already exists"
                /\ memUsers' = memUsers
                /\ dbUsers' = dbUsers
                /\ sessions' = sessions]_vars

\* C8 witness: a registration has been refused as a duplicate.
C8_Witness ==
    /\ last.route = "POST /api/auth/register"
    /\ last.msg = "User already exists"

Refused(credentials) ==
    LET found == {u \in StoreUsers : u.username = credentials.username}
    IN  \/ found = {}
        \/ \E u \in found : ~u.isActive
        \/ \E u \in found : u.passwordHash # hashPassword(credentials.password)

C10_ValidationFailureGeneric ==
    \A t1, t2 \in PresentedTokens :
        (authenticateToken(t1).code # 0 /\ authenticateToken(t2).code # 0)
           => /\ authenticateToken(t1).code = 401
              /\ authenticateToken(t1).error = authenticateToken(t2).error

\* The roles and teams a caller of the Entity Store may pass: the two roles,
\* a role the store does not know, and no role; a team, no team, the empty team
RoleInputs == {"admin", "team_member", "viewer", Null}

TeamInputs == Teams \cup {Null, ""}

\* C11: for an existing agent, deleteAgent returns true when the agent is
\* active and false when an earlier deleteAgent has already removed it, and
\* after the call neither getAgent nor getAgents returns the agent, for any
\* role and team.
C11_DeleteTwice ==
    [][\A id \in StoreIds :
          (AgentById(id) # NoAgent /\ DeleteAgent(id))
             => /\ deleteAgent(id).result = AgentById(id).isActive
                /\ \A role \in RoleInputs, team \in TeamInputs :
                      /\ getAgent(id, role, team)' = NoAgent
                      /\ \A a \in Range(getAgents(role, team)') : a.id # id]_vars

\* C12: after createAgent(X), getAgent of the created id by an admin or by a
\* team_member of X.team returns X's name, team and agentType with status
\* "offline" and isActive = true, whatever status X carried.
C12_CreateThenGet ==
    [][\A body \in AgentBodies :
          (insertAgentSchemaOk(body) /\ CreateAgent(body))
             => LET id == createAgent(body).agent.id
                IN  \A actor \in {<<"admin", Null>>, <<"team_member", body.team>>} :
                       LET got == getAgent(id, actor[1], actor[2])'
                       IN  /\ got.name = body.name
                           /\ got.team = body.team
                           /\ got.agentType = body.agentType
                           /\ got.status = "offline"
                           /\ got.isActive]_vars

\* C13: getAgents with a role that is neither admin nor team_member, or with
\* no role, or with team_member and a null or empty team, returns the empty
\* list.
C13_UnknownRoleSeesNothing ==
    /\ \A role \in RoleInputs \ {"admin", "team_member"}, team \in TeamInputs :
          getAgents(role, team) = <<>>
    /\ \A team \in {Null, ""} : getAgents("team_member", team) = <<>>

\* C14: getStats(role, team) counts exactly the agents getAgents(role, team)
\* returns, so that an unknown role and a team_member without a team get
\* all-zero stats.
C14_StatsCountScopedAgents ==
    \A role \in RoleInputs, team \in TeamInputs :
        /\ getStats(role, team) = Stats(getAgents(role, team))
        /\ (role \notin {"admin", "team_member"} \/ (role = "team_member" /\ ~Truthy(team)))
              => getStats(role, team).totalAgents = 0

\* C15: on the same rows, MemStorage and DatabaseStorage return the same
\* agents for every getAgents(role, team) and the same agent for every
\* getAgent(id, role, team), the calls without role and team included.
C15_BackendsAgree ==
    \A role \in RoleInputs, team \in TeamInputs :
        /\ Range(MemGetAgents(role, team)) = Range(DbGetAgents(role, team))
        /\ \A id \in StoreIds :
              MemGetAgent(id, role, team) = DbGetAgent(id, role, team)

\* C16: an agent_connect carrying agent id a binds the connection to a and is
\* answered with exactly one connection_established frame with a and the
\* connection's session id, so that the binding is that of the last
\* agent_connect; and a connection that is bound stays bound.
C16_BindingFollowsLastConnect ==
    [][\A sessionId \in DOMAIN sockets :
          /\ \A message \in WsMessages :
                (message.valid /\ message.type = "agent_connect"
                   /\ Receive(sessionId, message))
                   => /\ sockets'[sessionId].agentId = message.agentId
                      /\ sockets'[sessionId].sent =
                            Append(sockets[sessionId].sent,
                                   ConnectionEstablished(message.agentId, sessionId))
          /\ Truthy(sockets[sessionId].agentId) => Truthy(sockets'[sessionId].agentId)]_vars

\* What the timer callback leaves on the socket of its connection: one
\* agent_response frame if the socket is open, nothing otherwise
Answered(timer, response) ==
    LET ws == sockets[timer.sessionId]
    IN  sockets'[timer.sessionId].sent =
           IF ws.readyState = "OPEN" THEN Append(ws.sent, AgentResponse(response))
           ELSE ws.sent

OtherSocketsUntouched(timer) ==
    \A sessionId \in DOMAIN sockets \ {timer.sessionId} :
        sockets'[sessionId] = sockets[sessionId]

\* C17: the callback of an accepted agent_message stores exactly one
\* interaction with the connection's session id, the message text and the
\* selected response, and sends that response in one agent_response frame on
\* its own connection if the socket is open, on no other connection, and not
\* before the interaction has been written.
C17_OneInteractionOneResponse ==
    [][\A timer \in timers :
          /\ TimerFire(timer)
                => /\ Len(interactions') = Len(interactions) + 1
                   /\ LET stored == interactions'[Len(interactions')]
                      IN  /\ stored.sessionId = timer.sessionId
                          /\ stored.message = timer.content
                          /\ stored.response \in
                                simulateAgentResponse(sockets[timer.sessionId].agentId,
                                                      timer.content)
                          /\ IF backend = "db" THEN sockets' = sockets
                             ELSE Answered(timer, stored.response)
                   /\ OtherSocketsUntouched(timer)
          /\ TimerSend(timer)
                => /\ \E k \in 1..Len(interactions) :
                         /\ interactions[k].sessionId = timer.sessionId
                         /\ interactions[k].message = timer.content
                         /\ interactions[k].response = timer.response
                   /\ Answered(timer, timer.response)
                   /\ OtherSocketsUntouched(timer)]_vars

\* C18: when the callback of an agent_message runs after its connection has
\* closed, it still stores exactly one interaction for the message and sends
\* no frame at all.
C18_ClosedConnectionStillStored ==
    [][\A timer \in timers :
          (sockets[timer.sessionId].readyState # "OPEN" /\ TimerFire(timer))
             => /\ Len(interactions') = Len(interactions) + 1
                /\ interactions'[Len(interactions')].sessionId = timer.sessionId
                /\ interactions'[Len(interactions')].message = timer.content
                /\ sockets' = sockets
                /\ ~crashed']_vars

C20_ErrorAnsweredConnectionKept ==
    [][(\A sessionId \in DOMAIN sockets, message \in WsMessages :
           (~message.valid /\ Receive(sessionId, message))
              => /\ sockets' = send(sessionId, ErrorFrame)
                 /\ connections' = connections)
       /\
       (\A timer \in timers :
           (simulateAgentResponseThrows(sockets[timer.sessionId].agentId, timer.content)
              /\ TimerFire(timer))
              => /\ sockets' = IF sockets[timer.sessionId].readyState = "OPEN"
                               THEN send(timer.sessionId, ErrorFrame) ELSE sockets
                 /\ connections' = connections
                 /\ ~crashed')]_vars

\* C21: the messages of one connection are processed in the order they were
\* received: when the callback of an agent_message stores its interaction or
\* sends its response, no agent_message received earlier on the same
\* connection is still waiting for its own.
C21_ArrivalOrderKept ==
    [][\A timer \in timers :
          (TimerFire(timer) \/ TimerSend(timer))
             => ~(\E earlier \in timers :
                     /\ earlier.sessionId = timer.sessionId
                     /\ earlier.id < timer.id)]_vars

\* The first of the keyword rules that the lower-cased text matches (5: none)
FirstRule(userMessage) ==
    LET Has(word) == includes(toLowerCase(userMessage), word)
    IN  IF Has("refund") \/ Has("return") THEN 1
        ELSE IF Has("problem") \/ Has("issue") \/ Has("damaged") THEN 2
        ELSE IF Has("order") \/ Has("purchase") THEN 3
        ELSE IF Has("hello") \/ Has("hi") THEN 4
        ELSE 5

\* C22: for an agent that is found, the response is that of the first keyword
\* rule the lower-cased text matches (refund, issue, order, greeting), and
\* without a match it is one of the five strings of the pool of the agent's
\* type, the generic pool if the type is none of the six; so the text
\* 'I need a refund for order #123' sent to customercare-ai gets the refund
\* string.
C22_FirstMatchingRule ==
    [][\A agentId \in ReplyAgentIds, userMessage \in ReplyTexts :
          LET agent == getAgent(agentId, Null, Null)
              rule  == FirstRule(userMessage)
              pool  == IF agent.agentType \in AgentTypes THEN responses[agent.agentType]
                       ELSE genericResponses
          IN  (agent # NoAgent /\ SimulateAgentResponse(agentId, userMessage))
                 => /\ rule = 1 => reply'.response = RefundResponse
                    /\ rule = 2 => reply'.response = IssueResponse
                    /\ rule = 3 => reply'.response = OrderResponse
                    /\ rule = 4 => reply'.response = Greeting(agent)
                    /\ rule = 5 => reply'.response \in pool /\ Cardinality(pool) = 5
                    /\ (agentId = "customercare-ai" /\ userMessage = RefundForOrder)
                          => reply'.response = RefundResponse]_vars

\* The user rows of the store that carry the same username as another row
Duplicates == {u \in StoreUsers : \E v \in StoreUsers : v # u /\ v.username = u.username}

\* The request that created the user
CreatedBy(u) == {r \in requests : r.userId = u.id}

ValidSessions(userId) ==
    {s \in sessions : s.userId = userId /\ authenticateToken(s.token).code = 0}

\* C24: a user who holds a valid session can log in again at any time: the
\* login succeeds and adds a session row whose token no existing row has, and
\* the earlier sessions stay valid; a logout with one token leaves the user's
\* sessions with other tokens valid.
C24_ManySessionsPerUser ==
    [][(\A credentials \in LoginCredentials :
           LET checked == checkCredentials(credentials)
               held    == ValidSessions(checked.user.id)
           IN  (checked.code = 0 /\ held # {} /\ Login(credentials))
                  => (/\ last'.code = 200
                      /\ \E s \in sessions' \ sessions :
                            /\ s.userId = checked.user.id
                            /\ \A e \in sessions : e.token # s.token
                      /\ \A e \in held :
                            e \in sessions' /\ authenticateToken(e.token)'.code = 0))
       /\
       (\A token \in PresentedTokens :
           LET auth == authenticateToken(token)
           IN  (auth.code = 0 /\ Logout(token))
                  => \A e \in ValidSessions(auth.user.id) :
                        e.token # token
                           => e \in sessions' /\ authenticateToken(e.token)'.code = 0)]_vars

\* The users that a registration has created
Registered == {u \in StoreUsers : u.id \in Range(newUserIds)}

\* C25: every user created by a registration has no team if its role is admin
\* and has a team if its role is team_member; a request that breaks the rule
\* creates no user.
C25_RoleTeamRule ==
    \A u \in Registered :
        /\ u.role = "admin" => u.team = Null
        /\ u.role = "team_member" => u.team # Null

C27_InteractionsLatestFirst ==
    \A agentId \in {"customercare-ai", "ghost-agent", Null} :
        LET Wanted(i) == agentId = Null \/ i.agentId = agentId
            wanted == SelectSeq(interactions, Wanted)
            latest == [k \in 1..Len(wanted) |-> wanted[Len(wanted) + 1 - k]]
        IN  getInteractions(agentId) =
               IF Len(latest) > 100 THEN SubSeq(latest, 1, 100) ELSE latest

\* A message the handler does not act on: one of a type it does not know, or
\* an agent_message on a connection that is not bound
NotActedOn(sessionId, message) ==
    /\ message.valid
    /\ \/ message.type \notin {"agent_connect", "agent_message"}
       \/ message.type = "agent_message" /\ ~Truthy(sockets[sessionId].agentId)

\* C28: a message of an unknown type, and an agent_message on a connection
\* that is not bound, have no effect: no frame is sent on any connection, no
\* timer is set, no interaction is stored, and the binding and the registry
\* are as before.
C28_IgnoredMessageNoEffect ==
    [][\A sessionId \in DOMAIN sockets, message \in WsMessages :
          (NotActedOn(sessionId, message) /\ Receive(sessionId, message))
             => /\ sockets' = sockets
                /\ timers' = timers
                /\ interactions' = interactions
                /\ connections' = connections
                /\ crashed' = crashed]_vars

\* C28 witness: messages have been received on an open connection that was
\* never bound and nothing has been sent, set or stored.
C28_Witness ==
    /\ received >= 2
    /\ connections # {}
    /\ \A sessionId \in DOMAIN sockets :
          /\ sockets[sessionId].readyState = "OPEN"
          /\ sockets[sessionId].agentId = Null
          /\ sockets[sessionId].sent = <<>>
    /\ timers = {}
    /\ interactions = <<>>

\* C29: the interaction stored for an agent_message carries the agent the
\* connection was bound to when the message was received, and its response is
\* one that agent gives, also when the connection has been bound to another
\* agent before the response delay is over.
C29_AgentOfReception ==
    [][\A timer \in timers :
          (/\ timer.content # Null
           /\ TimerFire(timer)
           /\ Len(interactions') = Len(interactions) + 1)
             => /\ interactions'[Len(interactions')].agentId = timer.agentId
                /\ interactions'[Len(interactions')].response \in
                      simulateAgentResponse(timer.agentId, timer.content)]_vars

\* The container requests for an agent, and the one that was requested last
ContainerRequests(id) == {r \in requests : r.body.id = id}

LastRequested(id) ==
    CHOOSE r \in ContainerRequests(id) : \A q \in ContainerRequests(id) : q.id <= r.id

\* C30: a container action that completes sets the status of the agent to
\* online for start and deploy, to offline for stop and to busy for restart;
\* and once all the container requests for an agent have completed, the
\* status of the agent is the one of the action that was requested last.
C30_LastRequestedWins ==
    /\ [][\A request \in requests :
             (ContainerComplete(request) /\ AgentById(request.body.id) # NoAgent)
                => LET status == AgentById(request.body.id)'.status
                       action == request.body.action
                   IN  /\ action \in {"start", "deploy"} => status = "online"
                       /\ action = "stop" => status = "offline"
                       /\ action = "restart" => status = "busy"]_vars
    /\ [](\A id \in RequestIds :
             (/\ AgentById(id) # NoAgent
              /\ ContainerRequests(id) # {}
              /\ \A r \in ContainerRequests(id) : r.phase = "done")
                => LET action == LastRequested(id).body.action
                   IN  AgentById(id).status =
                          IF action \in {"start", "deploy"} THEN "online"
                          ELSE IF action = "stop" THEN "offline" ELSE "busy")

====
